---- MODULE Spec2Model ----
(***************************************************************************)
(* Model of the lin_alg Matrix container (src/src/core.rs) and of its LU   *)
(* and PLU decompositions (src/src/decomposition.rs).                      *)
(*                                                                         *)
(* Matrix entries are exact rationals <<numerator, denominator>> in lowest *)
(* terms with a positive denominator, so that products and quotients are   *)
(* computed, not assumed.  Row and column indices are 0-based as in the    *)
(* source; sequences are 1-based, hence the "+ 1" in every access.         *)
(***************************************************************************)
EXTENDS Integers, Sequences, FiniteSets, TLC

\* Largest number of rows, and largest row length, of the inputs explored.
MaxN == 3

(***************************************************************************)
(* Exact arithmetic on the entries.                                        *)
(***************************************************************************)
Abs(x) == IF x < 0 THEN -x ELSE x

\* Functions rather than operators: their arguments are evaluated once.
GCD[a \in Nat, b \in Nat] == IF b = 0 THEN a ELSE GCD[b, a % b]

Norm[n \in Int, d \in Int] ==
    LET g == GCD[Abs(n), Abs(d)]
        s == IF d < 0 THEN -1 ELSE 1
    IN  <<(s * n) \div g, (s * d) \div g>>

Zero == <<0, 1>>
One == <<1, 1>>

RAdd(a, b) == Norm[a[1] * b[2] + b[1] * a[2], a[2] * b[2]]
RSub(a, b) == Norm[a[1] * b[2] - b[1] * a[2], a[2] * b[2]]
RMul(a, b) == Norm[a[1] * b[1], a[2] * b[2]]
RDiv(a, b) == Norm[a[1] * b[2], a[2] * b[1]]

(***************************************************************************)
(* Option values.                                                          *)
(***************************************************************************)
None == [tag |-> "None"]
SomeMatrix(m) == [tag |-> "Some", m |-> m]
SomeLU(lo, up) == [tag |-> "Some", lower |-> lo, upper |-> up]
SomePLU(lo, up, p) == [tag |-> "Some", lower |-> lo, upper |-> up, permutation |-> p]

(***************************************************************************)
(* The Matrix container.                                                   *)
(***************************************************************************)
Matrix(contents, l, w) == [contents |-> contents, l |-> l, w |-> w]

\* Matrix::new had it accepted an empty input as the 0x0 matrix.
MatrixNew_AcceptsEmpty(inner) ==
    IF Len(inner) = 0
    THEN SomeMatrix(Matrix(<<>>, 0, 0))
    ELSE IF \E i \in 1..Len(inner) : Len(inner[i]) # Len(inner[1])
         THEN None
         ELSE SomeMatrix(Matrix(inner, Len(inner), Len(inner[1])))

\* Matrix::new: None on an empty input and on rows of differing lengths.
MatrixNew(inner) ==
    IF Len(inner) = 0
    THEN None
    ELSE LET w == Len(inner[1])
         IN  IF \E i \in 1..Len(inner) : Len(inner[i]) # w
             THEN None
             ELSE SomeMatrix(Matrix(inner, Len(inner), w))

identity(n) ==
    Matrix([i \in 1..n |-> [j \in 1..n |-> IF i = j THEN One ELSE Zero]], n, n)

blank(l, w) ==
    Matrix([i \in 1..l |-> [j \in 1..w |-> Zero]], l, w)

\* impl Mul<Matrix> for Matrix: the fold of acc + self[i][t] * rhs[t][j].
RECURSIVE MulFold(_, _, _, _, _)
MulFold(a, b, i, j, t) ==
    IF t = 0
    THEN Zero
    ELSE RAdd(MulFold(a, b, i, j, t - 1), RMul(a.contents[i][t], b.contents[t][j]))

MulDefined(a, b) == a.w = b.l

Mul(a, b) ==
    Matrix([i \in 1..a.l |-> [j \in 1..b.w |-> MulFold(a, b, i, j, a.w)]], a.l, b.w)

(***************************************************************************)
(* Matrix::lu_decompose, one pivot row r at a time.                        *)
(***************************************************************************)
IsSquare(m) == m.l = m.w

\* The zero test had it also looked at the first element of row r.
PivotIsZero_FirstColumn(up, r) ==
    up.contents[r + 1][r + 1] = Zero \/ up.contents[r + 1][1] = Zero

\* `scale == 0.` on the element in position (r, r).
PivotIsZero(up, r) == up.contents[r + 1][r + 1] = Zero

\* The pivot row had it been left unscaled.
ScaleRow_NoDivide(row, scale) == row

\* The row of the pivot, every entry divided by scale.
ScaleRow(row, scale) == [k \in 1..Len(row) |-> RDiv(row[k], scale)]

\* The elimination had it added the scaled pivot row.
ElimItem_Add(lower_item, scale, r_row_item) == RAdd(lower_item, RMul(scale, r_row_item))

\* |(lower_item, r_row_item)| lower_item - scale * r_row_item
ElimItem(lower_item, scale, r_row_item) == RSub(lower_item, RMul(scale, r_row_item))

\* vec![0.; r + 1] extended by the eliminated tail of the row below.
NewRow(rowBelow, rowR, r, scale) ==
    [k \in 1..Len(rowBelow) |->
        IF k <= r + 1 THEN Zero ELSE ElimItem(rowBelow[k], scale, rowR[k])]

\* upper after the body of `for r` has run for pivot row r.
PivotUpper(up, r) ==
    LET scale == up.contents[r + 1][r + 1]
        rowR == ScaleRow(up.contents[r + 1], scale)
    IN  [up EXCEPT !.contents =
            [b \in 1..Len(up.contents) |->
                IF b = r + 1 THEN rowR
                ELSE IF b > r + 1 /\ up.contents[b][r + 1] # Zero
                     THEN NewRow(up.contents[b], rowR, r, up.contents[b][r + 1])
                     ELSE up.contents[b]]]

\* lower after the body of `for r` has run for pivot row r.
PivotLower(up, lo, r) ==
    [lo EXCEPT !.contents =
        [b \in 1..Len(lo.contents) |->
            IF b = r + 1 THEN [lo.contents[b] EXCEPT ![r + 1] = up.contents[r + 1][r + 1]]
            ELSE IF b > r + 1 /\ up.contents[b][r + 1] # Zero
                 THEN [lo.contents[b] EXCEPT ![r + 1] = up.contents[b][r + 1]]
                 ELSE lo.contents[b]]]

RECURSIVE LuLoop(_, _, _, _)
LuLoop(up, lo, r, n) ==
    IF r = n THEN SomeLU(lo, up)
    ELSE IF PivotIsZero(up, r) THEN None
    ELSE LuLoop(PivotUpper(up, r), PivotLower(up, lo, r), r + 1, n)

\* The whole of lu_decompose as a function of the matrix it is called on.
lu_decompose(m) ==
    IF ~IsSquare(m) THEN None ELSE LuLoop(m, identity(m.l), 0, m.l)

(***************************************************************************)
(* Matrix::plu_decomposition helpers.                                      *)
(***************************************************************************)
\* itertools' (0..n).combinations(2): the pairs i < j in lexicographic order.
RECURSIVE CombFrom(_, _, _)
CombFrom(i, j, n) ==
    IF i >= n - 1 THEN <<>>
    ELSE IF j >= n THEN CombFrom(i + 1, i + 2, n)
    ELSE <<<<i, j>>>> \o CombFrom(i, j + 1, n)

\* The enumeration had it been combinations_with_replacement for index 0.
combinations_FromSelf(n) == CombFrom(0, 0, n)

combinations(n) == CombFrom(0, 1, n)

\* contents[last] = row; contents[first] = row2, rows cloned beforehand.
SwapRows(m, first, last) ==
    [m EXCEPT !.contents =
        [b \in 1..Len(m.contents) |->
            IF b = last + 1 THEN m.contents[first + 1]
            ELSE IF b = first + 1 THEN m.contents[last + 1]
            ELSE m.contents[b]]]

\* The unswapped result had it returned the pair in the order (upper, lower).
FirstResult_Swapped(lo, up, n) == SomePLU(up, lo, identity(n))

\* Some((lower, upper, Matrix::identity(self.l))) of the unswapped attempt.
FirstResult(lo, up, n) == SomePLU(lo, up, identity(n))

(***************************************************************************)
(* State.                                                                  *)
(***************************************************************************)
VARIABLES
    pc,           \* position of the caller / of the running method
    ctor,         \* "new" | "identity" | "blank": the constructor the caller used
    inner,        \* raw rows handed to Matrix::new (<<>> for the generators)
    self,         \* the caller's matrix: result of the constructor
    op,           \* "lu" | "plu": the method the caller invoked
    luSelf,       \* the matrix the running lu_decompose was invoked on
    upper, lower, \* lu_decompose's working matrices
    r,            \* lu_decompose's pivot row
    luRet,        \* value returned by the last lu_decompose
    out,          \* plu_decomposition's working copy
    permutation,  \* plu_decomposition's permutation of the current iteration
    iter,         \* number of combinations already taken from the iterator
    t,            \* the current combination, <<>> before the loop
    attempts,     \* number of lu_decompose calls made by plu_decomposition
    visited,      \* the combinations taken so far, in order
    ret           \* value returned to the caller

vars == <<pc, ctor, inner, self, op, luSelf, upper, lower, r, luRet, out,
          permutation, iter, t, attempts, visited, ret>>

\* The entries of the inputs are 0 and 1; elimination produces the other
\* values (negative numbers, fractions, larger pivots) from them.
Vals == {Zero, One}
RawRows == UNION {[1..k -> Vals] : k \in 0..MaxN}
RawInputs == UNION {[1..n -> RawRows] : n \in 0..MaxN}

Init ==
    /\ pc = "start"
    /\ ctor = "none"
    /\ inner = <<>>
    /\ self = None
    /\ op = "none"
    /\ luSelf = blank(0, 0)
    /\ upper = blank(0, 0)
    /\ lower = blank(0, 0)
    /\ r = 0
    /\ luRet = None
    /\ out = blank(0, 0)
    /\ permutation = blank(0, 0)
    /\ iter = 0
    /\ t = <<>>
    /\ attempts = 0
    /\ visited = <<>>
    /\ ret = None

luVars == <<luSelf, upper, lower, r, luRet>>
pluVars == <<out, permutation, iter, t, attempts, visited>>

(***************************************************************************)
(* Construction.                                                           *)
(***************************************************************************)
New ==
    /\ pc = "start"
    /\ \E rows \in RawInputs :
        /\ inner' = rows
        /\ self' = MatrixNew(rows)
        /\ pc' = IF MatrixNew(rows).tag = "None" THEN "rejected" ELSE "ready"
    /\ ctor' = "new"
    /\ UNCHANGED <<op, luVars, pluVars, ret>>

MkIdentity ==
    /\ pc = "start"
    /\ \E n \in 0..MaxN : self' = SomeMatrix(identity(n))
    /\ ctor' = "identity"
    /\ pc' = "ready"
    /\ UNCHANGED <<inner, op, luVars, pluVars, ret>>

MkBlank ==
    /\ pc = "start"
    /\ \E l \in 0..MaxN, w \in 0..MaxN : self' = SomeMatrix(blank(l, w))
    /\ ctor' = "blank"
    /\ pc' = "ready"
    /\ UNCHANGED <<inner, op, luVars, pluVars, ret>>

(***************************************************************************)
(* lu_decompose.                                                           *)
(***************************************************************************)
CallLu ==
    /\ pc = "ready"
    /\ op' = "lu"
    /\ luSelf' = self.m
    /\ pc' = "lu_enter"
    /\ UNCHANGED <<ctor, inner, self, upper, lower, r, luRet, pluVars, ret>>

LuNotSquare ==
    /\ pc = "lu_enter"
    /\ ~IsSquare(luSelf)
    /\ luRet' = None
    /\ pc' = "lu_return"
    /\ UNCHANGED <<ctor, inner, self, op, luSelf, upper, lower, r, pluVars, ret>>

LuInit ==
    /\ pc = "lu_enter"
    /\ IsSquare(luSelf)
    /\ upper' = luSelf
    /\ lower' = identity(luSelf.l)
    /\ r' = 0
    /\ pc' = "lu_loop"
    /\ UNCHANGED <<ctor, inner, self, op, luSelf, luRet, pluVars, ret>>

LuPivotZero ==
    /\ pc = "lu_loop"
    /\ r < luSelf.l
    /\ PivotIsZero(upper, r)
    /\ luRet' = None
    /\ pc' = "lu_return"
    /\ UNCHANGED <<ctor, inner, self, op, luSelf, upper, lower, r, pluVars, ret>>

LuPivot ==
    /\ pc = "lu_loop"
    /\ r < luSelf.l
    /\ ~PivotIsZero(upper, r)
    /\ upper' = PivotUpper(upper, r)
    /\ lower' = PivotLower(upper, lower, r)
    /\ r' = r + 1
    /\ UNCHANGED <<pc, ctor, inner, self, op, luSelf, luRet, pluVars, ret>>

LuSome ==
    /\ pc = "lu_loop"
    /\ r = luSelf.l
    /\ luRet' = SomeLU(lower, upper)
    /\ pc' = "lu_return"
    /\ UNCHANGED <<ctor, inner, self, op, luSelf, upper, lower, r, pluVars, ret>>

LuReturn ==
    /\ pc = "lu_return"
    /\ op = "lu"
    /\ ret' = luRet
    /\ pc' = "done"
    /\ UNCHANGED <<ctor, inner, self, op, luVars, pluVars>>

(***************************************************************************)
(* plu_decomposition.                                                      *)
(***************************************************************************)
PluNotSquare ==
    /\ pc = "ready"
    /\ ~IsSquare(self.m)
    /\ op' = "plu"
    /\ ret' = None
    /\ pc' = "done"
    /\ UNCHANGED <<ctor, inner, self, luVars, pluVars>>

PluFirstAttempt ==
    /\ pc = "ready"
    /\ IsSquare(self.m)
    /\ op' = "plu"
    /\ out' = self.m
    /\ luSelf' = self.m
    /\ attempts' = 1
    /\ pc' = "lu_enter"
    /\ UNCHANGED <<ctor, inner, self, upper, lower, r, luRet, permutation, iter, t, visited, ret>>

PluFirstSuccess ==
    /\ pc = "lu_return"
    /\ op = "plu"
    /\ t = <<>>
    /\ luRet.tag = "Some"
    /\ ret' = FirstResult(luRet.lower, luRet.upper, self.m.l)
    /\ pc' = "done"
    /\ UNCHANGED <<ctor, inner, self, op, luVars, pluVars>>

PluNext ==
    /\ pc = "lu_return"
    /\ op = "plu"
    /\ luRet.tag = "None"
    /\ iter < Len(combinations(self.m.w))
    /\ LET c == combinations(self.m.w)[iter + 1]
           swapped == SwapRows(out, c[1], c[2])
       IN  /\ t' = c
           /\ visited' = Append(visited, c)
           /\ permutation' = SwapRows(identity(self.m.l), c[1], c[2])
           /\ out' = swapped
           /\ luSelf' = swapped
    /\ iter' = iter + 1
    /\ attempts' = attempts + 1
    /\ pc' = "lu_enter"
    /\ UNCHANGED <<ctor, inner, self, op, upper, lower, r, luRet, ret>>

PluSwapSuccess ==
    /\ pc = "lu_return"
    /\ op = "plu"
    /\ t # <<>>
    /\ luRet.tag = "Some"
    /\ ret' = SomePLU(luRet.lower, luRet.upper, permutation)
    /\ pc' = "done"
    /\ UNCHANGED <<ctor, inner, self, op, luVars, pluVars>>

PluExhausted ==
    /\ pc = "lu_return"
    /\ op = "plu"
    /\ luRet.tag = "None"
    /\ iter = Len(combinations(self.m.w))
    /\ ret' = None
    /\ pc' = "done"
    /\ UNCHANGED <<ctor, inner, self, op, luVars, pluVars>>

Next ==
    \/ New
    \/ MkIdentity
    \/ MkBlank
    \/ CallLu
    \/ LuNotSquare
    \/ LuInit
    \/ LuPivotZero
    \/ LuPivot
    \/ LuSome
    \/ LuReturn
    \/ PluNotSquare
    \/ PluFirstAttempt
    \/ PluFirstSuccess
    \/ PluNext
    \/ PluSwapSuccess
    \/ PluExhausted

Spec == Init /\ [][Next]_vars

\* The steps of lu_decompose and plu_decomposition once they are invoked.
Running ==
    \/ LuNotSquare
    \/ LuInit
    \/ LuPivotZero
    \/ LuPivot
    \/ LuSome
    \/ LuReturn
    \/ PluFirstSuccess
    \/ PluNext
    \/ PluSwapSuccess
    \/ PluExhausted

\* The methods are sequential code without suspension points: an invoked
\* method keeps executing its next statement.
FairSpec == Spec /\ WF_vars(Running)

(***************************************************************************)
(* Vocabulary of the properties.                                           *)
(***************************************************************************)
\* Entry (i, j), 0-based, of a matrix.
At(m, i, j) == m.contents[i + 1][j + 1]

Ragged(rows) == \E i, j \in 1..Len(rows) : Len(rows[i]) # Len(rows[j])

LexLess(p, q) == p[1] < q[1] \/ (p[1] = q[1] /\ p[2] < q[2])

Pairs(n) == {p \in (0..(n - 1)) \X (0..(n - 1)) : p[1] < p[2]}

PluReturned == pc = "done" /\ op = "plu"

LuReturnedSome == pc = "lu_return" /\ luRet.tag = "Some"

\* The pairs whose single swap of the caller's matrix can be eliminated.
GoodPairs == {p \in Pairs(self.m.l) : lu_decompose(SwapRows(self.m, p[1], p[2])).tag = "Some"}

FirstGoodPair == CHOOSE p \in GoodPairs : \A q \in GoodPairs : q = p \/ LexLess(p, q)

(***************************************************************************)
(* C1: whenever lu_decompose returns Some((L, U)) for a square matrix M,   *)
(* the product L x U equals M entry for entry (exact arithmetic).          *)
(***************************************************************************)
C1_ProductIsOriginal ==
    LuReturnedSome =>
        /\ MulDefined(luRet.lower, luRet.upper)
        /\ Mul(luRet.lower, luRet.upper) = luSelf

\* A 3x3 elimination that recorded a multiplier and a pivot other than 1.
C1_Witness ==
    /\ LuReturnedSome
    /\ luSelf.l = 3
    /\ At(luRet.lower, 1, 0) # Zero
    /\ At(luRet.lower, 2, 2) # One
    /\ At(luRet.upper, 0, 1) # Zero

(***************************************************************************)
(* C2: plu_decomposition returns None or (L, U, P) with L x U = P x M,     *)
(* also when the result comes from the row-swap fallback.                  *)
(***************************************************************************)
C2_ProductIsPermuted ==
    (PluReturned /\ ret.tag = "Some") =>
        Mul(ret.lower, ret.upper) = Mul(ret.permutation, self.m)

(***************************************************************************)
(* C3: when lu_decompose fails on M but succeeds on some single swap of    *)
(* rows (i, j) of M, plu_decomposition returns (L, U, P) for the           *)
(* lexicographically first such pair: P is the identity with rows i and j  *)
(* swapped and (L, U) is lu_decompose of M with rows i and j swapped.      *)
(***************************************************************************)
C3_FirstSingleSwap ==
    (/\ PluReturned
     /\ IsSquare(self.m)
     /\ lu_decompose(self.m).tag = "None"
     /\ GoodPairs # {}) =>
        LET p == FirstGoodPair
            lu == lu_decompose(SwapRows(self.m, p[1], p[2]))
        IN  ret = SomePLU(lu.lower, lu.upper, SwapRows(identity(self.m.l), p[1], p[2]))

(***************************************************************************)
(* C4: when lu_decompose fails on M and on every single swap of two rows   *)
(* of M, plu_decomposition returns None.                                   *)
(***************************************************************************)
C4_NoSingleSwapIsNone ==
    (/\ PluReturned
     /\ IsSquare(self.m)
     /\ lu_decompose(self.m).tag = "None"
     /\ GoodPairs = {}) =>
        ret.tag = "None"

(***************************************************************************)
(* C5: lu_decompose returns None exactly when the matrix is not square or  *)
(* the working value Upper[r][r] is zero at some pivot step r, the steps   *)
(* being taken in increasing order; every access it makes is in range, so  *)
(* it never aborts, 0x0 and non-square matrices included.                  *)
(***************************************************************************)
C5_NoneExactly ==
    /\ pc = "lu_return" =>
        (luRet.tag = "None" <=>
            (\/ luSelf.l # luSelf.w
             \/ (r < luSelf.l /\ At(upper, r, r) = Zero)))
    /\ pc = "lu_return" /\ luRet.tag = "Some" =>
        /\ r = luSelf.l
        /\ \A q \in 0..(luSelf.l - 1) : At(lower, q, q) # Zero
    /\ pc = "lu_loop" =>
        /\ r <= luSelf.l
        /\ Len(upper.contents) = luSelf.l
        /\ Len(lower.contents) = luSelf.l
        /\ \A b \in 1..luSelf.l :
            Len(upper.contents[b]) = luSelf.l /\ Len(lower.contents[b]) = luSelf.l

\* A pivot that the elimination itself turned into zero.
C5_Witness ==
    /\ pc = "lu_return"
    /\ luRet.tag = "None"
    /\ IsSquare(luSelf)
    /\ r >= 1
    /\ At(luSelf, r, r) # Zero

(***************************************************************************)
(* C6: when lu_decompose succeeds on the unmodified matrix with (L, U),    *)
(* plu_decomposition returns exactly (L, U, Identity(n)) and tries no swap.*)
(***************************************************************************)
C6_UnswappedFirst ==
    (/\ PluReturned
     /\ IsSquare(self.m)
     /\ lu_decompose(self.m).tag = "Some") =>
        /\ ret = SomePLU(lu_decompose(self.m).lower, lu_decompose(self.m).upper,
                         identity(self.m.l))
        /\ visited = <<>>
        /\ attempts = 1

C6_Witness ==
    /\ PluReturned
    /\ self.m.l = 3
    /\ ret.tag = "Some"
    /\ visited = <<>>
    /\ ret.lower # identity(3)

(***************************************************************************)
(* C7 as stated: Matrix::new fails exactly when the rows have differing    *)
(* lengths; an empty sequence of rows yields a 0x0 Matrix.                 *)
(***************************************************************************)
C7_FailsOnlyOnRagged ==
    ctor = "new" =>
        /\ self.tag = "None" <=> Ragged(inner)
        /\ inner = <<>> => (self.tag = "Some" /\ self.m = Matrix(<<>>, 0, 0))

(***************************************************************************)
(* C7 amended: Matrix::new fails exactly when the sequence of rows is      *)
(* empty or the rows have differing lengths; otherwise it yields the       *)
(* Matrix of those rows, of Len(rows) rows and Len(rows[0]) columns.       *)
(***************************************************************************)
C7_FailsOnEmptyOrRagged ==
    ctor = "new" =>
        /\ self.tag = "None" <=> (inner = <<>> \/ Ragged(inner))
        /\ self.tag = "Some" => self.m = Matrix(inner, Len(inner), Len(inner[1]))

C7_Witness ==
    /\ ctor = "new"
    /\ inner = <<>>
    /\ self.tag = "None"
    /\ pc = "rejected"

(***************************************************************************)
(* C8: at every iteration of the fallback loop, the matrix passed to       *)
(* lu_decompose for the combination (i, j) is the caller's matrix with     *)
(* only rows i and j swapped.                                              *)
(***************************************************************************)
C8_FreshWorkingCopy ==
    (op = "plu" /\ t # <<>>) => luSelf = SwapRows(self.m, t[1], t[2])

\* The shape of a returned pair.
C9_Shape ==
    LuReturnedSome =>
        \A i, j \in 0..(luSelf.l - 1) :
            /\ i > j => At(luRet.upper, i, j) = Zero
            /\ i = j => At(luRet.upper, i, j) = One
            /\ i < j => At(luRet.lower, i, j) = Zero
            /\ i = j => At(luRet.lower, i, j) # Zero

\* What one pivot step, and the return, do to lower.
C9_Step ==
    /\ (pc = "lu_loop" /\ pc' = "lu_loop") =>
        /\ r' = r + 1
        /\ At(upper, r, r) # Zero
        /\ At(lower', r, r) = At(upper, r, r)
        /\ \A b \in (r + 1)..(luSelf.l - 1) : At(lower', b, r) = At(upper, b, r)
        /\ \A b \in 0..(luSelf.l - 1), c \in 0..(r - 1) : At(lower', b, c) = At(lower, b, c)
    /\ (pc = "lu_loop" /\ pc' = "lu_return" /\ luRet'.tag = "Some") =>
        luRet' = SomeLU(lower, upper)

(***************************************************************************)
(* C9: whenever lu_decompose returns Some((L, U)): U is 0 below the        *)
(* diagonal and 1 on it, L is 0 above the diagonal; at pivot step r,       *)
(* L[r][r] receives the nonzero value read from Upper[r][r] before         *)
(* normalization and L[b][r], b > r, the value of Upper[b][r] at that step *)
(* (0 for a skipped row); no later step changes those entries.             *)
(***************************************************************************)
C9_Triangular == []C9_Shape /\ [][C9_Step]_vars

\* A 3x3 result with a recorded multiplier, a skipped row and a pivot other than 1.
C9_Witness ==
    /\ LuReturnedSome
    /\ luSelf.l = 3
    /\ At(luRet.lower, 1, 0) # Zero
    /\ At(luRet.lower, 2, 0) = Zero
    /\ At(luRet.lower, 2, 1) # Zero
    /\ At(luRet.lower, 2, 2) \notin {Zero, One}

\* The combinations taken so far are a prefix of the lexicographic enumeration.
C10_Visits ==
    (op = "plu" /\ IsSquare(self.m)) =>
        LET n == self.m.l
        IN  /\ attempts = 1 + Len(visited)
            /\ 2 * attempts <= 2 + n * (n - 1)
            /\ \A k \in 1..Len(visited) :
                /\ visited[k] \in Pairs(n)
                /\ {p \in Pairs(n) : LexLess(p, visited[k])} = {visited[a] : a \in 1..(k - 1)}
            /\ (pc = "done" /\ ret.tag = "None") => 2 * Len(visited) = n * (n - 1)

\* A successful elimination ends the search; a new attempt follows a failure.
C10_Stops ==
    /\ (op = "plu" /\ pc = "lu_return" /\ luRet.tag = "Some") =>
        (pc' = "done" /\ attempts' = attempts /\ ret'.tag = "Some")
    /\ (op = "plu" /\ attempts' # attempts) => luRet.tag = "None"

(***************************************************************************)
(* C10: plu_decomposition on an n x n matrix terminates; after the         *)
(* unswapped attempt it visits the pairs i < j < n in ascending            *)
(* lexicographic order, each at most once, stops at the first successful   *)
(* elimination, and makes at most 1 + n(n-1)/2 lu_decompose attempts.      *)
(***************************************************************************)
C10_Terminates ==
    /\ []C10_Visits
    /\ [][C10_Stops]_vars
    /\ (op = "plu") ~> (pc = "done")

\* A 3x3 search that ran through all three pairs and gave up.
C10_Witness ==
    /\ PluReturned
    /\ self.m.l = 3
    /\ attempts = 4
    /\ visited = <<<<0, 1>>, <<0, 2>>, <<1, 2>>>>
    /\ ret.tag = "None"

====
